---- MODULE Spec2Model ----
(***************************************************************************)
(* Model of the three review drivers of gpt-code-reviewer:                 *)
(*   "file" : src/reviewer.js lines 1-166   (runReview, one comment per    *)
(*            changed file, range narrowed to the last push)               *)
(*   "pr"   : src/reviewer.js lines 168-276 (one summary review per PR)    *)
(*   "line" : src/unnamed/part_000          (one comment per added line)   *)
(* A JavaScript string is a sequence of one-character strings; `undefined` *)
(* is the one-element sequence Undefined.  Every `await` is two steps: the *)
(* call is put in flight, and later returns or throws.                     *)
(***************************************************************************)
EXTENDS Integers, Sequences, FiniteSets, TLC

VARIABLES
    mode,          \* which driver runs: "file", "line", "pr", or a pure-function harness
    pc,            \* control location of the driver
    env,           \* process.env: IGNORE, ignore, MAX_PATCH_LENGTH
    data,          \* harness input: response of compareCommits(base, head)
    last,          \* harness input: response of compareCommits(second-to-last, last)
    changedFiles,  \* runReview: let changedFiles
    commits,       \* runReview: commits of the compared range
    i,             \* index (0-based) of the unit being processed
    files,         \* listFiles response (per-line and whole-PR drivers)
    changes,       \* per-line driver: const changes
    commit_id,     \* per-line driver: const commit_id
    diff,          \* whole-PR driver: const diff
    inflight,      \* external calls started and not yet settled
    trace,         \* history of external calls and console output
    result,        \* settlement of the promise returned by runReview
    caught,        \* reviewPullRequest's catch block has run
    unhandled      \* a rejected promise nobody handles

vars == <<mode, pc, env, data, last, changedFiles, commits, i, files, changes,
          commit_id, diff, inflight, trace, result, caught, unhandled>>

(***************************************************************************)
(* Bounds of the model.                                                    *)
(***************************************************************************)
MaxFiles == 2
MaxCommits == 2
MaxDiffLen == 4
MaxIgnoreLen == 3

(***************************************************************************)
(* JavaScript values.                                                      *)
(***************************************************************************)
Undefined == <<"undefined">>

Truthy(s) == s # Undefined /\ s # <<>>

Infinity == -1

Some(v) == [defined |-> TRUE, v |-> v]

None == [defined |-> FALSE, v |-> <<>>]

Strings(alphabet, n) == UNION {[1..k -> alphabet] : k \in 0..n}

StartsWith(s, prefix) ==
    /\ Len(s) >= Len(prefix)
    /\ SubSeq(s, 1, Len(prefix)) = prefix

Includes(list, x) == \E k \in 1..Len(list) : list[k] = x

RECURSIVE Split(_)
Split(s) ==
    IF \A k \in 1..Len(s) : s[k] # "\n"
    THEN <<s>>
    ELSE LET k == CHOOSE k \in 1..Len(s) :
                      s[k] = "\n" /\ \A j \in 1..(k - 1) : s[j] # "\n"
         IN  <<SubSeq(s, 1, k - 1)>> \o Split(SubSeq(s, k + 1, Len(s)))

(***************************************************************************)
(* Per-line segmentation: getDiff of src/unnamed/part_000.                 *)
(***************************************************************************)
IsAddedLineNoHeaderCheck(line) == StartsWith(line, <<"+">>)

IsAddedLine(line) ==
    StartsWith(line, <<"+">>) /\ ~StartsWith(line, <<"+", "+", "+">>)

RECURSIVE PatchChanges(_, _, _)
PatchChanges(filename, patchLines, index) ==
    IF index >= Len(patchLines)
    THEN <<>>
    ELSE LET line == patchLines[index + 1]
         IN  (IF IsAddedLine(line)
              THEN <<[file |-> filename, position |-> index + 1, line |-> line]>>
              ELSE <<>>)
             \o PatchChanges(filename, patchLines, index + 1)

RECURSIVE getDiff(_)
getDiff(fs) ==
    IF fs = <<>>
    THEN <<>>
    ELSE (IF Truthy(Head(fs).patch)
          THEN PatchChanges(Head(fs).filename, Split(Head(fs).patch), 0)
          ELSE <<>>)
         \o getDiff(Tail(fs))

(***************************************************************************)
(* History: one record per external call event and per console line.       *)
(***************************************************************************)
Event(op, phase, unit) ==
    [op |-> op, phase |-> phase, unit |-> unit, path |-> <<>>, position |-> 0,
     body |-> <<>>, commit_id |-> ""]

Call(op, unit) == [op |-> op, unit |-> unit]

Console(op, message, path) ==
    [Event(op, "print", 0) EXCEPT !.body = message, !.path = path]

(***************************************************************************)
(* Whole-file driver: runReview of src/reviewer.js.                        *)
(***************************************************************************)
base == "BASE"

head == "HEAD"

DigitValue(c) ==
    CASE c = "0" -> 0 [] c = "1" -> 1 [] c = "2" -> 2 [] c = "3" -> 3
      [] c = "4" -> 4 [] c = "5" -> 5 [] c = "6" -> 6 [] c = "7" -> 7
      [] c = "8" -> 8 [] c = "9" -> 9

RECURSIVE ToNumber(_)
ToNumber(s) ==
    IF s = <<>>
    THEN 0
    ELSE ToNumber(SubSeq(s, 1, Len(s) - 1)) * 10 + DigitValue(s[Len(s)])

MAX_PATCH_COUNT(e) ==
    IF Truthy(e.MAX_PATCH_LENGTH) THEN ToNumber(e.MAX_PATCH_LENGTH) ELSE Infinity

GreaterThan(n, max) == IF max = Infinity THEN FALSE ELSE n > max

SkippedAtBudget(file, max) ==
    LET patch == IF Truthy(file.patch) THEN file.patch ELSE <<>>
    IN  ~Truthy(patch) \/ (max # Infinity /\ Len(patch) >= max)

Skipped(file, max) ==
    LET patch == IF Truthy(file.patch) THEN file.patch ELSE <<>>
    IN  ~Truthy(patch) \/ GreaterThan(Len(patch), max)

NeedsLastPush(cs) == Len(cs) >= 2

IgnoreList(e) ==
    LET raw == IF Truthy(e.IGNORE) THEN e.IGNORE
               ELSE IF Truthy(e.ignore) THEN e.ignore
               ELSE <<>>
    IN  SelectSeq(Split(raw), LAMBDA v : v # <<>>)

FilesNames(lastFiles) ==
    IF lastFiles.defined
    THEN [k \in 1..Len(lastFiles.v) |-> lastFiles.v[k].filename]
    ELSE <<>>

NarrowedFilesNoIgnore(cf, lastFiles, e) ==
    IF cf.defined
    THEN Some(SelectSeq(cf.v, LAMBDA file :
                  Includes(FilesNames(lastFiles), file.filename)))
    ELSE None

NarrowedFiles(cf, lastFiles, e) ==
    IF cf.defined
    THEN Some(SelectSeq(cf.v, LAMBDA file :
                  /\ Includes(FilesNames(lastFiles), file.filename)
                  /\ ~Includes(IgnoreList(e), file.filename)))
    ELSE None

NoChangeOnlyWhenAbsent(cf) == ~cf.defined

NoChange(cf) == ~cf.defined \/ Len(cf.v) = 0

Position(patch) == Len(Split(patch)) - 1

RECURSIVE NextReviewed(_, _, _)
NextReviewed(fs, j, max) ==
    IF j >= Len(fs) THEN j
    ELSE IF Skipped(fs[j + 1], max) THEN NextReviewed(fs, j + 1, max)
    ELSE j

SkipLogs(fs, from, to) ==
    [k \in 1..(to - from) |->
        Console("console.log", <<"skipped caused by its diff is too large">>,
                fs[from + k].filename)]

ReviewFailed(file) == Console("console.error", <<"review failed">>, file.filename)

Posted == Console("console.log", <<"Review comments posted successfully!">>, <<>>)

\* The for loop of runReview from index j up to its next await (or its end).
Loop(cf, j, e, fl, tr) ==
    LET fs == cf.v
        n  == NextReviewed(fs, j, MAX_PATCH_COUNT(e))
        t  == tr \o SkipLogs(fs, j, n)
    IN  IF n >= Len(fs)
        THEN [pc |-> "done", i |-> n, inflight |-> fl, trace |-> t,
              result |-> "fulfilled"]
        ELSE [pc |-> "codeReview", i |-> n,
              inflight |-> fl \cup {Call("codeReview", n)},
              trace |-> Append(t, Event("codeReview", "call", n)),
              result |-> "pending"]

\* Lines 51-81: the empty check, then the loop.
Review(cf, e, tr) ==
    IF NoChange(cf)
    THEN [pc |-> "done", i |-> 0, inflight |-> {},
          trace |-> Append(tr, Console("console.log", <<"no change found">>, <<>>)),
          result |-> "no change"]
    ELSE Loop(cf, 0, e, {}, tr)

OuterCatchSwallows == "fulfilled"

OuterCatch == "rejected"

AwaitsRunReview == FALSE

NoAwaitCreateReviewComment == FALSE

AwaitsCreateReviewComment == TRUE

ErrorComparing ==
    Console("console.error", <<"Error comparing commits: ", base, "...", head>>, <<>>)

DriverError == Console("console.error", <<"Error:">>, <<>>)

(***************************************************************************)
(* Inputs: what the environment and the two collaborators can hand over.   *)
(***************************************************************************)
Shas == <<"c1", "c2", "c3", "c4">>

CommitLists == {[k \in 1..n |-> [sha |-> Shas[k]]] : n \in 0..MaxCommits}

FileNamePool == {<<"a">>, <<"b">>}

PatchPool == {Undefined, <<>>, <<"x">>, <<"+", "a", "\n", "+", "b">>}

FilePool == [filename : FileNamePool, patch : PatchPool]

FileLists == UNION {[1..k -> FilePool] : k \in 0..MaxFiles}

FileListsOpt == {None} \cup {Some(fs) : fs \in FileLists}

LastPushOpt ==
    {None} \cup {Some(fs) : fs \in UNION {[1..k -> [filename : FileNamePool,
                                                    patch : {Undefined}]] : k \in 0..MaxFiles}}

NoEnv == [IGNORE |-> Undefined, ignore |-> Undefined, MAX_PATCH_LENGTH |-> Undefined]

EnvPool ==
    {NoEnv,
     [NoEnv EXCEPT !.MAX_PATCH_LENGTH = <<>>],
     [NoEnv EXCEPT !.MAX_PATCH_LENGTH = <<"0">>],
     [NoEnv EXCEPT !.MAX_PATCH_LENGTH = <<"1">>],
     [NoEnv EXCEPT !.IGNORE = <<"a">>],
     [NoEnv EXCEPT !.ignore = <<"b", "\n", "a">>, !.MAX_PATCH_LENGTH = <<"1">>]}

Verdicts == {<<>>, <<"r">>}

NoResponse == [files |-> None, commits |-> <<>>]

(***************************************************************************)
(* Actions of the whole-file driver.                                       *)
(***************************************************************************)
Step(r) ==
    /\ pc' = r.pc
    /\ i' = r.i
    /\ inflight' = r.inflight
    /\ trace' = r.trace
    /\ result' = r.result

\* Lines 82-86 and 149-155: the outer catch logs and rethrows; the promise
\* of runReview rejects, and the caller handles it only if it awaited it.
Thrown(tr) ==
    /\ Step([pc |-> "done", i |-> i, inflight |-> {},
             trace |-> IF OuterCatch = "rejected" /\ AwaitsRunReview
                       THEN tr \o <<ErrorComparing, DriverError>>
                       ELSE Append(tr, ErrorComparing),
             result |-> OuterCatch])
    /\ caught' = (OuterCatch = "rejected" /\ AwaitsRunReview)
    /\ unhandled' = (OuterCatch = "rejected" /\ ~AwaitsRunReview)

RunReview ==
    /\ mode = "file" /\ pc = "start"
    /\ pc' = "compareFull"
    /\ inflight' = {Call("compareCommits", 0)}
    /\ trace' = Append(trace, [Event("compareCommits", "call", 0)
                                   EXCEPT !.body = <<base, "...", head>>])
    /\ UNCHANGED <<mode, env, data, last, changedFiles, commits, i, files, changes,
                   commit_id, diff, result, caught, unhandled>>

\* Lines 38-43: the comparison of the second-to-last with the last commit.
LastPushCall(cs) ==
    [Event("compareCommits", "call", 1)
        EXCEPT !.body = <<cs[Len(cs) - 1].sha, "...", cs[Len(cs)].sha>>]

CompareFullReturn ==
    /\ mode = "file" /\ pc = "compareFull"
    /\ \E fs \in FileListsOpt, cs \in CommitLists :
         LET tr == Append(trace, Event("compareCommits", "return", 0))
         IN  /\ commits' = cs
             /\ changedFiles' = fs
             /\ IF NeedsLastPush(cs)
                THEN Step([pc |-> "compareLast", i |-> i,
                           inflight |-> {Call("compareCommits", 1)},
                           trace |-> Append(tr, LastPushCall(cs)),
                           result |-> "pending"])
                ELSE Step(Review(fs, env, tr))
    /\ UNCHANGED <<mode, env, data, last, files, changes, commit_id, diff,
                   caught, unhandled>>

CompareFullThrow ==
    /\ mode = "file" /\ pc = "compareFull"
    /\ Thrown(Append(trace, Event("compareCommits", "throw", 0)))
    /\ UNCHANGED <<mode, env, data, last, changedFiles, commits, files, changes,
                   commit_id, diff>>

CompareLastReturn ==
    /\ mode = "file" /\ pc = "compareLast"
    /\ \E lf \in LastPushOpt :
         /\ changedFiles' = NarrowedFiles(changedFiles, lf, env)
         /\ Step(Review(changedFiles', env,
                        Append(trace, Event("compareCommits", "return", 1))))
    /\ UNCHANGED <<mode, env, data, last, commits, files, changes, commit_id, diff,
                   caught, unhandled>>

CompareLastThrow ==
    /\ mode = "file" /\ pc = "compareLast"
    /\ Thrown(Append(trace, Event("compareCommits", "throw", 1)))
    /\ UNCHANGED <<mode, env, data, last, changedFiles, commits, files, changes,
                   commit_id, diff>>

\* Lines 64-76: codeReview returned res.
CodeReviewReturn ==
    /\ mode = "file" /\ pc = "codeReview"
    /\ \E res \in Verdicts :
         LET file == changedFiles.v[i + 1]
             tr   == Append(trace, [Event("codeReview", "return", i) EXCEPT !.body = res])
             post == [Event("createReviewComment", "call", i) EXCEPT
                         !.commit_id = commits[Len(commits)].sha,
                         !.path = file.filename,
                         !.body = res,
                         !.position = Position(file.patch)]
         IN  IF ~Truthy(res)
             THEN Step(Loop(changedFiles, i + 1, env, {}, Append(tr, Posted)))
             ELSE IF commits = <<>>
             THEN \* commits[-1].sha throws a TypeError, caught at line 78
                  Step(Loop(changedFiles, i + 1, env, {}, Append(tr, ReviewFailed(file))))
             ELSE IF AwaitsCreateReviewComment
             THEN Step([pc |-> "createReviewComment", i |-> i,
                        inflight |-> {Call("createReviewComment", i)},
                        trace |-> Append(tr, post), result |-> "pending"])
             ELSE Step(Loop(changedFiles, i + 1, env, {Call("createReviewComment", i)},
                            tr \o <<post, Posted>>))
    /\ UNCHANGED <<mode, env, data, last, changedFiles, commits, files, changes,
                   commit_id, diff, caught, unhandled>>

CodeReviewThrow ==
    /\ mode = "file" /\ pc = "codeReview"
    /\ Step(Loop(changedFiles, i + 1, env, inflight \ {Call("codeReview", i)},
                 trace \o <<Event("codeReview", "throw", i),
                            ReviewFailed(changedFiles.v[i + 1])>>))
    /\ UNCHANGED <<mode, env, data, last, changedFiles, commits, files, changes,
                   commit_id, diff, caught, unhandled>>

CreateReviewCommentReturn ==
    /\ mode = "file"
    /\ \E c \in inflight :
         /\ c.op = "createReviewComment"
         /\ LET tr == Append(trace, Event("createReviewComment", "return", c.unit))
            IN  IF pc = "createReviewComment"
                THEN Step(Loop(changedFiles, i + 1, env, {}, Append(tr, Posted)))
                ELSE Step([pc |-> pc, i |-> i, inflight |-> inflight \ {c},
                           trace |-> tr, result |-> result])
    /\ UNCHANGED <<mode, env, data, last, changedFiles, commits, files, changes,
                   commit_id, diff, caught, unhandled>>

CreateReviewCommentThrow ==
    /\ mode = "file"
    /\ \E c \in inflight :
         /\ c.op = "createReviewComment"
         /\ LET tr == Append(trace, Event("createReviewComment", "throw", c.unit))
            IN  IF pc = "createReviewComment"
                THEN /\ Step(Loop(changedFiles, i + 1, env, {},
                                  Append(tr, ReviewFailed(changedFiles.v[i + 1]))))
                     /\ UNCHANGED unhandled
                ELSE /\ Step([pc |-> pc, i |-> i, inflight |-> inflight \ {c},
                              trace |-> tr, result |-> result])
                     /\ unhandled' = TRUE
    /\ UNCHANGED <<mode, env, data, last, changedFiles, commits, files, changes,
                   commit_id, diff, caught>>

FileNext ==
    \/ RunReview
    \/ CompareFullReturn
    \/ CompareFullThrow
    \/ CompareLastReturn
    \/ CompareLastThrow
    \/ CodeReviewReturn
    \/ CodeReviewThrow
    \/ CreateReviewCommentReturn
    \/ CreateReviewCommentThrow

Start(m, e) ==
    /\ mode = m
    /\ pc = "start"
    /\ env = e
    /\ data = NoResponse
    /\ last = NoResponse
    /\ changedFiles = None
    /\ commits = <<>>
    /\ i = 0
    /\ files = <<>>
    /\ changes = <<>>
    /\ commit_id = ""
    /\ diff = <<>>
    /\ inflight = {}
    /\ trace = <<>>
    /\ result = "pending"
    /\ caught = FALSE
    /\ unhandled = FALSE

(***************************************************************************)
(* Actions of the per-line driver: reviewPullRequest of part_000.          *)
(***************************************************************************)
\* Lines 128-130: the one catch block of reviewPullRequest.
Catch(tr) ==
    /\ pc' = "done"
    /\ inflight' = {}
    /\ trace' = Append(tr, DriverError)
    /\ caught' = TRUE

GenerateReviewCall(u, tr) ==
    /\ pc' = "generateReview"
    /\ i' = u
    /\ inflight' = {Call("generateReview", u)}
    /\ trace' = Append(tr, Event("generateReview", "call", u))

LineReviewPullRequest ==
    /\ mode = "line" /\ pc = "start"
    /\ pc' = "listCommits"
    /\ inflight' = {Call("listCommits", 0)}
    /\ trace' = Append(trace, Event("listCommits", "call", 0))
    /\ UNCHANGED <<mode, env, data, last, changedFiles, commits, i, files, changes,
                   commit_id, diff, result, caught, unhandled>>

LineListCommitsReturn ==
    /\ mode = "line" /\ pc = "listCommits"
    /\ \E cs \in CommitLists :
         LET tr == Append(trace, Event("listCommits", "return", 0))
         IN  /\ commits' = cs
             /\ IF cs = <<>>
                THEN \* commits[-1].sha throws a TypeError inside getCommitId
                     /\ Catch(tr)
                     /\ UNCHANGED commit_id
                ELSE /\ commit_id' = cs[Len(cs)].sha
                     /\ pc' = "listFiles"
                     /\ inflight' = {Call("listFiles", 0)}
                     /\ trace' = Append(tr, Event("listFiles", "call", 0))
                     /\ UNCHANGED caught
    /\ UNCHANGED <<mode, env, data, last, changedFiles, i, files, changes, diff,
                   result, unhandled>>

LineListCommitsThrow ==
    /\ mode = "line" /\ pc = "listCommits"
    /\ Catch(Append(trace, Event("listCommits", "throw", 0)))
    /\ UNCHANGED <<mode, env, data, last, changedFiles, commits, i, files, changes,
                   commit_id, diff, result, unhandled>>

LineListFilesReturn ==
    /\ mode = "line" /\ pc = "listFiles"
    /\ \E fs \in FileLists :
         LET tr == Append(trace, Event("listFiles", "return", 0))
         IN  /\ files' = fs
             /\ changes' = getDiff(fs)
             /\ IF changes' = <<>>
                THEN /\ pc' = "done"
                     /\ inflight' = {}
                     /\ trace' = Append(tr, Posted)
                     /\ UNCHANGED i
                ELSE GenerateReviewCall(0, tr)
    /\ UNCHANGED <<mode, env, data, last, changedFiles, commits, commit_id, diff,
                   result, caught, unhandled>>

LineListFilesThrow ==
    /\ mode = "line" /\ pc = "listFiles"
    /\ Catch(Append(trace, Event("listFiles", "throw", 0)))
    /\ UNCHANGED <<mode, env, data, last, changedFiles, commits, i, files, changes,
                   commit_id, diff, result, unhandled>>

\* Lines 123-124: the review is posted whatever it says.
LineGenerateReviewReturn ==
    /\ mode = "line" /\ pc = "generateReview"
    /\ \E review \in Verdicts :
         LET change == changes[i + 1]
         IN  /\ pc' = "postReviewComment"
             /\ inflight' = {Call("createReviewComment", i)}
             /\ trace' = trace \o
                  <<[Event("generateReview", "return", i) EXCEPT !.body = review],
                    [Event("createReviewComment", "call", i) EXCEPT
                        !.commit_id = commit_id,
                        !.path = change.file,
                        !.position = change.position,
                        !.body = review]>>
    /\ UNCHANGED <<mode, env, data, last, changedFiles, commits, i, files, changes,
                   commit_id, diff, result, caught, unhandled>>

LineGenerateReviewThrow ==
    /\ mode = "line" /\ pc = "generateReview"
    /\ Catch(Append(trace, Event("generateReview", "throw", i)))
    /\ UNCHANGED <<mode, env, data, last, changedFiles, commits, i, files, changes,
                   commit_id, diff, result, unhandled>>

LinePostReviewCommentReturn ==
    /\ mode = "line" /\ pc = "postReviewComment"
    /\ LET tr == Append(trace, Event("createReviewComment", "return", i))
       IN  IF i + 1 < Len(changes)
           THEN GenerateReviewCall(i + 1, tr)
           ELSE /\ pc' = "done"
                /\ inflight' = {}
                /\ trace' = Append(tr, Posted)
                /\ UNCHANGED i
    /\ UNCHANGED <<mode, env, data, last, changedFiles, commits, files, changes,
                   commit_id, diff, result, caught, unhandled>>

LinePostReviewCommentThrow ==
    /\ mode = "line" /\ pc = "postReviewComment"
    /\ Catch(Append(trace, Event("createReviewComment", "throw", i)))
    /\ UNCHANGED <<mode, env, data, last, changedFiles, commits, i, files, changes,
                   commit_id, diff, result, unhandled>>

LineNext ==
    \/ LineReviewPullRequest
    \/ LineListCommitsReturn
    \/ LineListCommitsThrow
    \/ LineListFilesReturn
    \/ LineListFilesThrow
    \/ LineGenerateReviewReturn
    \/ LineGenerateReviewThrow
    \/ LinePostReviewCommentReturn
    \/ LinePostReviewCommentThrow

(***************************************************************************)
(* Actions of the whole-PR driver: src/reviewer.js lines 190-267.          *)
(***************************************************************************)
RECURSIVE DiffText(_)
DiffText(fs) ==
    IF fs = <<>>
    THEN <<>>
    ELSE (IF Truthy(Head(fs).patch)
          THEN <<"F", "i", "l", "e", ":", " ">> \o Head(fs).filename \o <<"\n">>
               \o Head(fs).patch \o <<"\n", "\n">>
          ELSE <<>>)
         \o DiffText(Tail(fs))

PrReviewPullRequest ==
    /\ mode = "pr" /\ pc = "start"
    /\ pc' = "listFiles"
    /\ inflight' = {Call("listFiles", 0)}
    /\ trace' = Append(trace, Event("listFiles", "call", 0))
    /\ UNCHANGED <<mode, env, data, last, changedFiles, commits, i, files, changes,
                   commit_id, diff, result, caught, unhandled>>

PrListFilesReturn ==
    /\ mode = "pr" /\ pc = "listFiles"
    /\ \E fs \in FileLists :
         /\ files' = fs
         /\ diff' = DiffText(fs)
         /\ GenerateReviewCall(0, Append(trace, Event("listFiles", "return", 0)))
    /\ UNCHANGED <<mode, env, data, last, changedFiles, commits, changes, commit_id,
                   result, caught, unhandled>>

PrListFilesThrow ==
    /\ mode = "pr" /\ pc = "listFiles"
    /\ Catch(Append(trace, Event("listFiles", "throw", 0)))
    /\ UNCHANGED <<mode, env, data, last, changedFiles, commits, i, files, changes,
                   commit_id, diff, result, unhandled>>

\* Lines 261-262: the review is posted whatever it says.
PrGenerateReviewReturn ==
    /\ mode = "pr" /\ pc = "generateReview"
    /\ \E review \in Verdicts :
         /\ pc' = "postReview"
         /\ inflight' = {Call("createReview", 0)}
         /\ trace' = trace \o
              <<[Event("generateReview", "return", 0) EXCEPT !.body = review],
                [Event("createReview", "call", 0) EXCEPT !.body = review]>>
    /\ UNCHANGED <<mode, env, data, last, changedFiles, commits, i, files, changes,
                   commit_id, diff, result, caught, unhandled>>

PrGenerateReviewThrow ==
    /\ mode = "pr" /\ pc = "generateReview"
    /\ Catch(Append(trace, Event("generateReview", "throw", 0)))
    /\ UNCHANGED <<mode, env, data, last, changedFiles, commits, i, files, changes,
                   commit_id, diff, result, unhandled>>

PrPostReviewReturn ==
    /\ mode = "pr" /\ pc = "postReview"
    /\ pc' = "done"
    /\ inflight' = {}
    /\ trace' = trace \o <<Event("createReview", "return", 0),
                           Console("console.log", <<"Review posted successfully!">>, <<>>)>>
    /\ UNCHANGED <<mode, env, data, last, changedFiles, commits, i, files, changes,
                   commit_id, diff, result, caught, unhandled>>

PrPostReviewThrow ==
    /\ mode = "pr" /\ pc = "postReview"
    /\ Catch(Append(trace, Event("createReview", "throw", 0)))
    /\ UNCHANGED <<mode, env, data, last, changedFiles, commits, i, files, changes,
                   commit_id, diff, result, unhandled>>

PrNext ==
    \/ PrReviewPullRequest
    \/ PrListFilesReturn
    \/ PrListFilesThrow
    \/ PrGenerateReviewReturn
    \/ PrGenerateReviewThrow
    \/ PrPostReviewReturn
    \/ PrPostReviewThrow

(***************************************************************************)
(* getDiff of part_000 as a function of the listed files: the files are    *)
(* drawn from every patch over PatchAlphabet whose lengths sum to at most  *)
(* MaxDiffLen.                                                             *)
(***************************************************************************)
PatchAlphabet == {"+", "x", "\n"}

\* The sum of the first k lengths.
RECURSIVE Offset(_, _)
Offset(lens, k) == IF k = 0 THEN 0 ELSE Offset(lens, k - 1) + lens[k]

\* n files: the k-th has no patch when absent[k], and otherwise the next
\* lens[k] characters of text.
SegFiles(n, names, lens, absent, text) ==
    [k \in 1..n |->
        [filename |-> names[k],
         patch |-> IF absent[k] THEN Undefined
                   ELSE SubSeq(text, Offset(lens, k - 1) + 1, Offset(lens, k))]]

SegInit ==
    /\ mode = "getDiff"
    /\ pc = "start"
    /\ env = NoEnv
    /\ data = NoResponse
    /\ last = NoResponse
    /\ changedFiles = None
    /\ commits = <<>>
    /\ i = 0
    /\ \E n \in 0..MaxFiles :
         \E names \in [1..n -> FileNamePool], lens \in [1..n -> 0..MaxDiffLen],
            absent \in [1..n -> BOOLEAN] :
            /\ Offset(lens, n) <= MaxDiffLen
            /\ \A k \in 1..n : absent[k] => lens[k] = 0
            /\ \E text \in [1..Offset(lens, n) -> PatchAlphabet] :
                  files = SegFiles(n, names, lens, absent, text)
    /\ changes = <<>>
    /\ commit_id = ""
    /\ diff = <<>>
    /\ inflight = {}
    /\ trace = <<>>
    /\ result = "pending"
    /\ caught = FALSE
    /\ unhandled = FALSE

SegGetDiff ==
    /\ mode = "getDiff" /\ pc = "start"
    /\ changes' = getDiff(files)
    /\ pc' = "done"
    /\ UNCHANGED <<mode, env, data, last, changedFiles, commits, i, files, commit_id,
                   diff, inflight, trace, result, caught, unhandled>>

SpecSeg == SegInit /\ [][SegGetDiff]_vars

(***************************************************************************)
(* The range narrowing of runReview (lines 36-50) as a function of the two *)
(* compareCommits responses and of the ignore list.                        *)
(***************************************************************************)
NarrowNames == {<<"a">>, <<"A">>, <<"a", "a">>}

IgnoreAlphabet == {"a", "A", "\n"}

NarrowFiles == [filename : NarrowNames, patch : {<<"x">>}]

NarrowFileLists == UNION {[1..k -> NarrowFiles] : k \in 0..MaxFiles}

RECURSIVE SetToSeq(_)
SetToSeq(S) ==
    IF S = {} THEN <<>>
    ELSE LET x == CHOOSE x \in S : TRUE IN <<x>> \o SetToSeq(S \ {x})

NarrowLastLists == {SetToSeq(S) : S \in SUBSET NarrowFiles}

NarrowEnvs ==
    {[NoEnv EXCEPT !.IGNORE = s] : s \in Strings(IgnoreAlphabet, MaxIgnoreLen) \cup {Undefined}}
    \cup {[NoEnv EXCEPT !.IGNORE = s, !.ignore = <<"A">>] : s \in {Undefined, <<>>, <<"a">>}}

NarrowInit ==
    /\ mode = "narrow"
    /\ pc = "start"
    /\ env \in NarrowEnvs
    /\ data \in [files : {None} \cup {Some(fs) : fs \in NarrowFileLists},
                 commits : CommitLists]
    /\ last \in [files : {None} \cup {Some(fs) : fs \in NarrowLastLists},
                 commits : {<<>>}]
    /\ changedFiles = None
    /\ commits = <<>>
    /\ i = 0
    /\ files = <<>>
    /\ changes = <<>>
    /\ commit_id = ""
    /\ diff = <<>>
    /\ inflight = {}
    /\ trace = <<>>
    /\ result = "pending"
    /\ caught = FALSE
    /\ unhandled = FALSE

\* Lines 36-37 when commits.length < 2: changedFiles stays data.files.
NarrowFirstPush ==
    /\ mode = "narrow" /\ pc = "start"
    /\ ~NeedsLastPush(data.commits)
    /\ commits' = data.commits
    /\ changedFiles' = data.files
    /\ pc' = "done"
    /\ UNCHANGED <<mode, env, data, last, i, files, changes, commit_id, diff,
                   inflight, trace, result, caught, unhandled>>

\* Lines 36-50 when commits.length >= 2.
NarrowLastPush ==
    /\ mode = "narrow" /\ pc = "start"
    /\ NeedsLastPush(data.commits)
    /\ commits' = data.commits
    /\ trace' = trace \o <<LastPushCall(data.commits),
                          Event("compareCommits", "return", 1)>>
    /\ changedFiles' = NarrowedFiles(data.files, last.files, env)
    /\ pc' = "done"
    /\ UNCHANGED <<mode, env, data, last, i, files, changes, commit_id, diff,
                   inflight, result, caught, unhandled>>

NarrowNext == NarrowFirstPush \/ NarrowLastPush

SpecNarrow == NarrowInit /\ [][NarrowNext]_vars

(***************************************************************************)
(* The three drivers, each run started once with its environment.          *)
(***************************************************************************)
Init ==
    \/ \E e \in EnvPool : Start("file", e)
    \/ Start("line", NoEnv)
    \/ Start("pr", NoEnv)

Next == FileNext \/ LineNext \/ PrNext

Spec == Init /\ [][Next]_vars

(***************************************************************************)
(* Vocabulary of the properties, read off the history.                     *)
(***************************************************************************)
GenOps == {"codeReview", "generateReview"}

PostOps == {"createReviewComment", "createReview"}

Happened(ops, phases, unit) ==
    \E n \in 1..Len(trace) :
        trace[n].op \in ops /\ trace[n].phase \in phases /\ trace[n].unit = unit

Count(ops, phases, unit) ==
    Cardinality({n \in 1..Len(trace) :
        trace[n].op \in ops /\ trace[n].phase \in phases /\ trace[n].unit = unit})

AnyCall(ops) == \E n \in 1..Len(trace) : trace[n].op \in ops /\ trace[n].phase = "call"

FetchFailed ==
    \E n \in 1..Len(trace) : trace[n].op = "compareCommits" /\ trace[n].phase = "throw"

\* The number of lines of a patch: one more than its line breaks.
NumLines(p) == Cardinality({k \in 1..Len(p) : p[k] = "\n"}) + 1

\* Where the n-th line break of p stands.
NthBreak(p, n) ==
    CHOOSE k \in 1..Len(p) :
        p[k] = "\n" /\ Cardinality({j \in 1..(k - 1) : p[j] = "\n"}) = n - 1

\* The n-th line of p (1-based), without its line break.
LineAt(p, n) ==
    SubSeq(p, IF n = 1 THEN 1 ELSE NthBreak(p, n - 1) + 1,
              IF n = NumLines(p) THEN Len(p) ELSE NthBreak(p, n) - 1)

Present(p) == p # Undefined /\ Len(p) > 0

\* The budget the environment configures, if it configures one.
BudgetConfigured == Present(env.MAX_PATCH_LENGTH)

OverBudget(p) == BudgetConfigured /\ Len(p) > ToNumber(env.MAX_PATCH_LENGTH)

\* The units of the run in produced order, as 0-based indices: the files
\* that pass the pre-check (whole-file), the added lines (per-line).
Units ==
    IF mode = "file"
    THEN {k \in 0..(Len(changedFiles.v) - 1) :
             LET p == changedFiles.v[k + 1].patch IN Present(p) /\ ~OverBudget(p)}
    ELSE 0..(Len(changes) - 1)

(***************************************************************************)
(* C1. Failure isolation: once a run is over, every unit that comes after  *)
(* a unit whose generate-review or post-comment call raised has still been *)
(* dispatched, and its non-empty verdict has been handed to the comment    *)
(* poster (whole-file and per-line drivers).  A whole-file run over a      *)
(* range without commits is left aside: it has no commit to anchor to.     *)
(***************************************************************************)
FailureIsolation ==
    (mode \in {"file", "line"} /\ pc = "done" /\ ~FetchFailed) =>
        \A j \in Units, k \in Units :
            (j < k /\ Happened(GenOps \cup PostOps, {"throw"}, j)) =>
                /\ Happened(GenOps, {"call"}, k)
                /\ \A n \in 1..Len(trace) :
                      (/\ trace[n].op \in GenOps
                       /\ trace[n].phase = "return"
                       /\ trace[n].unit = k
                       /\ trace[n].body # <<>>) =>
                          \/ Happened(PostOps, {"call"}, k)
                          \/ (mode = "file" /\ commits = <<>>)

(***************************************************************************)
(* C2. Suppression rule: in every driver, every post call carries a        *)
(* non-empty verdict as its body; an empty verdict is never posted.        *)
(***************************************************************************)
SuppressionRule ==
    \A n \in 1..Len(trace) :
        (trace[n].op \in PostOps /\ trace[n].phase = "call") => trace[n].body # <<>>

(***************************************************************************)
(* C3. Budget pre-check of runReview: a file whose patch is absent, empty  *)
(* or longer than the configured budget is never handed to the text        *)
(* generation and never commented; no file is handed over twice; and when  *)
(* the run has gone through the list, every file with a non-empty patch    *)
(* within the budget has been handed over exactly once.                    *)
(***************************************************************************)
BudgetPreCheck ==
    (mode = "file" /\ changedFiles.defined) =>
        \A k \in 0..(Len(changedFiles.v) - 1) :
            LET p == changedFiles.v[k + 1].patch
            IN  /\ Count({"codeReview"}, {"call"}, k) <= 1
                /\ (~Present(p) \/ OverBudget(p)) =>
                      /\ Count({"codeReview"}, {"call"}, k) = 0
                      /\ Count({"createReviewComment"}, {"call"}, k) = 0
                /\ (pc = "done" /\ ~FetchFailed /\ Present(p) /\ ~OverBudget(p)) =>
                      Count({"codeReview"}, {"call"}, k) = 1

BudgetPreCheckWitness ==
    /\ mode = "file" /\ pc = "done" /\ changedFiles.defined
    /\ Len(changedFiles.v) = 2
    /\ BudgetConfigured
    /\ OverBudget(changedFiles.v[1].patch)
    /\ Len(changedFiles.v[2].patch) = ToNumber(env.MAX_PATCH_LENGTH)
    /\ Count({"codeReview"}, {"call"}, 0) = 0
    /\ Count({"codeReview"}, {"call"}, 1) = 1

(***************************************************************************)
(* C4. Range narrowing of runReview.  With fewer than two commits the list *)
(* considered is the full-range list F itself and no second comparison is  *)
(* made.  With two commits or more, the second-to-last commit is compared  *)
(* with the last, and the list is the files of F, in F's order, whose name *)
(* is a file name of that comparison and is not an entry of the            *)
(* newline-separated ignore list (exact, case-sensitive).                  *)
(***************************************************************************)
ConfiguredIgnore ==
    IF Present(env.IGNORE) THEN env.IGNORE
    ELSE IF Present(env.ignore) THEN env.ignore
    ELSE <<>>

\* name stands in raw between two line breaks (or the ends of raw).
IsIgnoreEntry(raw, name) ==
    \E a \in 1..Len(raw) :
        LET b == a + Len(name) - 1
        IN  /\ b <= Len(raw)
            /\ \A k \in 1..Len(name) : raw[a + k - 1] = name[k]
            /\ (a = 1 \/ raw[a - 1] = "\n")
            /\ (b = Len(raw) \/ raw[b + 1] = "\n")

InLastPush(name) ==
    /\ last.files.defined
    /\ \E k \in 1..Len(last.files.v) : last.files.v[k].filename = name

Kept(file) ==
    InLastPush(file.filename) /\ ~IsIgnoreEntry(ConfiguredIgnore, file.filename)

RangeNarrowing ==
    (mode = "narrow" /\ pc = "done") =>
        IF Len(data.commits) < 2
        THEN /\ changedFiles = data.files
             /\ ~AnyCall({"compareCommits"})
        ELSE /\ changedFiles.defined = data.files.defined
             /\ changedFiles.v = SelectSeq(data.files.v, Kept)
             /\ \E n \in 1..Len(trace) :
                   /\ trace[n].op = "compareCommits" /\ trace[n].phase = "call"
                   /\ trace[n].body = <<data.commits[Len(data.commits) - 1].sha, "...",
                                        data.commits[Len(data.commits)].sha>>

RangeNarrowingWitness ==
    /\ mode = "narrow" /\ pc = "done"
    /\ Len(data.commits) >= 2
    /\ data.files.defined /\ Len(data.files.v) = 2
    /\ InLastPush(data.files.v[1].filename)
    /\ IsIgnoreEntry(ConfiguredIgnore, data.files.v[1].filename)
    /\ changedFiles.v = <<data.files.v[2]>>

(***************************************************************************)
(* C5. Empty result: when the list left by the narrowing is empty or       *)
(* absent, runReview ends with "no change", raises nothing, and calls      *)
(* neither the text generation nor the comment poster.                     *)
(***************************************************************************)
EmptyResult ==
    (/\ mode = "file" /\ pc = "done" /\ ~FetchFailed
     /\ (~changedFiles.defined \/ changedFiles.v = <<>>)) =>
        /\ result = "no change"
        /\ ~unhandled
        /\ ~AnyCall(GenOps \cup PostOps)

EmptyResultWitness ==
    /\ mode = "file" /\ pc = "done"
    /\ Happened({"compareCommits"}, {"return"}, 1)
    /\ changedFiles = Some(<<>>)
    /\ result = "no change"

TopLevelCatch ==
    (mode = "file" /\ result = "rejected") =>
        /\ caught
        /\ ~unhandled
        /\ \E n \in 1..Len(trace) : trace[n] = DriverError

(***************************************************************************)
(* C8. Per-line segmentation: the units getDiff emits are, file after file *)
(* in the order listed, one unit per line of the file's patch that starts  *)
(* with "+" and not with "+++", in patch order, each with that line and    *)
(* its 1-based index in its own patch; a file without patch, or without    *)
(* such a line, gives no unit.                                             *)
(***************************************************************************)
Candidate(line) ==
    /\ Len(line) >= 1 /\ line[1] = "+"
    /\ ~(Len(line) >= 3 /\ line[2] = "+" /\ line[3] = "+")

UnitsOf(file) ==
    IF ~Present(file.patch)
    THEN <<>>
    ELSE LET p   == file.patch
             idx == SelectSeq([n \in 1..NumLines(p) |-> n],
                              LAMBDA n : Candidate(LineAt(p, n)))
         IN  [m \in 1..Len(idx) |->
                 [file |-> file.filename, position |-> idx[m], line |-> LineAt(p, idx[m])]]

ExpectedChanges ==
    LET RECURSIVE Upto(_)
        Upto(k) == IF k = 0 THEN <<>> ELSE Upto(k - 1) \o UnitsOf(files[k])
    IN  Upto(Len(files))

PerLineSegmentation ==
    (mode = "getDiff" /\ pc = "done") =>
        /\ changes = ExpectedChanges
        /\ \A n \in 1..Len(changes) :
              /\ changes[n].line[1] = "+"
              /\ changes[n].position >= 1

PerLineSegmentationWitness ==
    /\ mode = "getDiff" /\ pc = "done"
    /\ Len(files) = 2
    /\ files[1].patch = <<"x", "\n", "+">>
    /\ files[2].patch = <<"+">>
    /\ Len(changes) = 2
    /\ changes[1].position = 2 /\ changes[2].position = 1

(***************************************************************************)
(* C9. Position invariant: every comment posted with a position carries a  *)
(* position p with 1 <= p <= N + 1, N the number of lines of the patch of  *)
(* the file commented (whole-file and per-line drivers).                   *)
(***************************************************************************)
CommentedPatches(e) ==
    IF mode = "file"
    THEN {changedFiles.v[e.unit + 1].patch}
    ELSE {files[k].patch : k \in {k \in 1..Len(files) :
                                     files[k].filename = e.path /\ Present(files[k].patch)}}

PositionInvariant ==
    mode \in {"file", "line"} =>
        \A n \in 1..Len(trace) :
            (trace[n].op = "createReviewComment" /\ trace[n].phase = "call") =>
                \E p \in CommentedPatches(trace[n]) :
                    1 <= trace[n].position /\ trace[n].position <= NumLines(p) + 1

(***************************************************************************)
(* C10. Strictly sequential FIFO processing (whole-file and per-line       *)
(* drivers): at most one external call is in flight; a generate-review     *)
(* call starts only when every earlier call has returned or failed; units  *)
(* are dispatched, and comments posted, in produced order and at most      *)
(* once; a comment is posted only for the unit just reviewed; and all      *)
(* comments of a run carry the SHA of the last commit.                     *)
(***************************************************************************)
Calls(ops) == SelectSeq(trace, LAMBDA e : e.op \in ops /\ e.phase = "call")

Increasing(evs) == \A m \in 1..Len(evs), n \in 1..Len(evs) : m < n => evs[m].unit < evs[n].unit

Settled(n) ==
    Cardinality({m \in 1..(n - 1) :
        trace[m].op \in GenOps \cup PostOps /\ trace[m].phase = "call"})
    = Cardinality({m \in 1..(n - 1) :
        trace[m].op \in GenOps \cup PostOps /\ trace[m].phase \in {"return", "throw"}})

SequentialFifo ==
    mode \in {"file", "line"} =>
        /\ Cardinality(inflight) <= 1
        /\ Increasing(Calls(GenOps))
        /\ Increasing(Calls(PostOps))
        /\ \A n \in 1..Len(trace) :
              /\ (trace[n].op \in GenOps \cup PostOps /\ trace[n].phase = "call") =>
                    Settled(n)
              /\ (trace[n].op \in PostOps /\ trace[n].phase = "call") =>
                    /\ trace[n].commit_id = commits[Len(commits)].sha
                    /\ \E m \in 1..(n - 1) :
                          /\ trace[m].op \in GenOps /\ trace[m].phase = "return"
                          /\ trace[m].unit = trace[n].unit
                          /\ \A l \in (m + 1)..(n - 1) : trace[l].op \notin GenOps

SequentialFifoWitness ==
    /\ mode = "file" /\ pc = "done"
    /\ Len(commits) = 2
    /\ Len(Calls(PostOps)) = 2
    /\ Happened(PostOps, {"throw"}, 0)
    /\ Happened(PostOps, {"return"}, 1)

====
